---- MODULE Spec2Model ----
(***************************************************************************)
(* gh-gist-new: run() = parseArgs -> resolveTargetDirectory ->             *)
(* gatherFiles -> createGist -> cloneGistMetadata (moveGitMetadata,        *)
(* moveFileOrDir, copyDir, copyFile), modelled over a small file system.   *)
(*                                                                         *)
(* Names are sequences of one-character strings, so that prefix tests,     *)
(* trimming and byte-wise ordering are computed and not assumed.           *)
(* Permission modes are sets of permission bits; the process is taken to   *)
(* run as an ordinary (non-root) user, so the bits decide access.          *)
(***************************************************************************)
EXTENDS Integers, Sequences, FiniteSets, TLC

\* Number of invocations of the tool that are explored one after another.
MaxRuns == 2
\* Largest number of entries an initial target directory holds.
MaxEntries == 2

(***************************************************************************)
(* Strings                                                                 *)
(***************************************************************************)
\* The characters of the model in increasing byte order.
ByteOrder ==
    << "\n", " ", "#", "-", ".", "/", "\\",
       "a", "b", "c", "d", "e", "f", "g", "h", "i", "j", "k", "l", "m",
       "n", "o", "p", "q", "r", "s", "t", "u", "v", "w", "x", "y", "z" >>

Code(c) == CHOOSE i \in 1..Len(ByteOrder) : ByteOrder[i] = c

\* Go's string comparison a < b: byte-wise lexicographic.
RECURSIVE StrLess(_, _)
StrLess(a, b) ==
    IF b = <<>> THEN FALSE
    ELSE IF a = <<>> THEN TRUE
    ELSE IF Code(Head(a)) < Code(Head(b)) THEN TRUE
    ELSE IF Code(Head(a)) > Code(Head(b)) THEN FALSE
    ELSE StrLess(Tail(a), Tail(b))

HasPrefix(s, p) == Len(s) >= Len(p) /\ SubSeq(s, 1, Len(p)) = p

ContainsAny(s, chars) == \E i \in 1..Len(s) : s[i] \in chars

WhiteSpace == {" ", "\n"}

RECURSIVE TrimLeft(_)
TrimLeft(s) ==
    IF s # <<>> /\ Head(s) \in WhiteSpace THEN TrimLeft(Tail(s)) ELSE s

RECURSIVE TrimRight(_)
TrimRight(s) ==
    IF s # <<>> /\ s[Len(s)] \in WhiteSpace
    THEN TrimRight(SubSeq(s, 1, Len(s) - 1)) ELSE s

TrimSpace(s) == TrimRight(TrimLeft(s))

\* The names in S as the sequence sort.Slice / os.ReadDir orders them.
RECURSIVE SortNames(_)
SortNames(S) ==
    IF S = {} THEN <<>>
    ELSE LET m == CHOOSE x \in S : \A y \in S \ {x} : StrLess(x, y)
         IN  <<m>> \o SortNames(S \ {m})

Dot       == << ".">>
DotDot    == << ".", "." >>
DotGit    == << ".", "g", "i", "t" >>
GitIgnore == << ".", "g", "i", "t", "i", "g", "n", "o", "r", "e" >>
GitAttrs  == << ".", "g", "i", "t", "a", "t", "t", "r", "i", "b", "u", "t", "e", "s" >>
NameN     == << "n" >>
NameDotN  == << ".", "n" >>
NameA     == << "a" >>
NameS     == << ".", "s" >>
NameW     == << "w" >>
NameT     == << "t" >>
NameHead  == << "h" >>
NameObj   == << "o" >>
NameClone == << "c", "l", "o", "n", "e" >>
GistName  == << "g", "i", "s", "t" >>
Separator == << "/" >>

(***************************************************************************)
(* File system nodes                                                       *)
(***************************************************************************)
NoChildren == [n \in {} |-> 0]

Absent == [kind |-> "absent", mode |-> {}, content |-> <<>>,
           children |-> NoChildren, link |-> "none"]

FileNode(m, c) == [kind |-> "file", mode |-> m, content |-> c,
                   children |-> NoChildren, link |-> "none"]

DirNode(m, ch) == [kind |-> "dir", mode |-> m, content |-> <<>>,
                   children |-> ch, link |-> "none"]

\* A symbolic link to the node to: link is the kind of what it leads to
\* ("dangling" when nothing is there), mode, content and children are those
\* of what it leads to.
SymlinkNode(to) ==
    [kind |-> "symlink", mode |-> to.mode, content |-> to.content,
     children |-> to.children,
     link |-> IF to.kind = "absent" THEN "dangling" ELSE to.kind]

\* A symbolic link to a path that names nothing and where nothing can be
\* created (its directory is missing or may not be written).
LostLink == [SymlinkNode(Absent) EXCEPT !.link = "lost"]

\* What a path leads to when symbolic links are followed (os.Stat, os.Open).
Resolve(node) ==
    IF node.kind # "symlink" THEN node
    ELSE IF node.link \in {"dangling", "lost"} THEN Absent
    ELSE [node EXCEPT !.kind = node.link, !.link = "none"]

SocketNode == [kind |-> "socket", mode |-> {"ur", "uw"}, content |-> <<>>,
               children |-> NoChildren, link |-> "none"]

Mode755 == {"ur", "uw", "ux", "gr", "gx", "or", "ox"}
Mode644 == {"ur", "uw", "gr", "or"}
Mode777 == Mode755 \cup {"gw", "ow"}
Mode666 == Mode644 \cup {"gw", "ow"}
Mode555 == Mode755 \ {"uw"}
Mode000 == {}

Lookup(dir, name) ==
    IF name \in DOMAIN dir.children THEN dir.children[name] ELSE Absent

Put(f, k, v) == [x \in (DOMAIN f) \cup {k} |-> IF x = k THEN v ELSE f[x]]

Del(f, k) == [x \in (DOMAIN f) \ {k} |-> f[x]]

\* The kernel's mode for a created file or directory: requested & ~umask.
Masked(mode, umask) == mode \ umask

(***************************************************************************)
(* Errors: the chain of message formats from the outermost wrapper to the  *)
(* innermost cause, and the values the formatted text embeds.              *)
(***************************************************************************)
NoErr == [chain |-> <<>>, ids |-> {}, paths |-> {}, names |-> {}]

Errorf(text, ids, paths, names) ==
    [chain |-> <<text>>, ids |-> ids, paths |-> paths, names |-> names]

Wrap(text, ids, paths, names, inner) ==
    [chain |-> <<text>> \o inner.chain, ids |-> ids \cup inner.ids,
     paths |-> paths \cup inner.paths, names |-> names \cup inner.names]

errHelpRequested == Errorf("help requested", {}, {}, {})

(***************************************************************************)
(* parseArgs / validateName                                                *)
(***************************************************************************)
validateName(name) ==
    IF name = <<>> THEN Errorf("name cannot be empty", {}, {}, {})
    ELSE IF name = Dot THEN NoErr
    ELSE IF name = DotDot
    THEN Errorf("'..' is not a supported directory name", {}, {}, {})
    ELSE IF ContainsAny(name, {"/", "\\"})
    THEN Errorf("name %q may not contain path separators", {}, {}, {name})
    ELSE IF HasPrefix(name, <<"-">>)
    THEN Errorf("name %q may not start with '-'", {}, {}, {name})
    ELSE NoErr

NoOpts == [name |-> <<>>, description |-> <<>>]

\* args: flag is the outcome of flag parsing ("ok", "help", "bad"), rest the
\* positional arguments, descSet/desc the -d/--description flag.
parseArgs(args) ==
    IF args.flag = "help" THEN [opts |-> NoOpts, err |-> errHelpRequested]
    ELSE IF args.flag = "bad"
    THEN [opts |-> NoOpts,
          err |-> Errorf("failed to parse flags: %w", {}, {}, {})]
    ELSE IF Len(args.rest) = 0
    THEN [opts |-> NoOpts,
          err |-> Errorf("missing required [name] argument", {}, {}, {})]
    ELSE IF Len(args.rest) > 1
    THEN [opts |-> NoOpts,
          err |-> Errorf("only one [name] argument is supported", {}, {}, {})]
    ELSE LET name == TrimSpace(args.rest[1]) IN
         IF validateName(name) # NoErr
         THEN [opts |-> NoOpts, err |-> validateName(name)]
         ELSE IF args.descSet
         THEN IF TrimSpace(args.desc) = <<>>
              THEN [opts |-> [name |-> name, description |-> <<>>],
                    err |-> Errorf("description cannot be empty when provided",
                                   {}, {}, {})]
              ELSE [opts |-> [name |-> name,
                              description |-> TrimSpace(args.desc)],
                    err |-> NoErr]
         ELSE [opts |-> [name |-> name, description |-> <<>>], err |-> NoErr]

(***************************************************************************)
(* resolveTargetDirectory                                                  *)
(***************************************************************************)
\* os.Stat follows symbolic links.
StatIsDir(node) == Resolve(node).kind = "dir"

StatExists(node) == Resolve(node).kind # "absent"

\* A process may look up the entries of a directory it may search; without
\* that every system call on a path below the directory fails with EACCES.
MaySearch(dir) == "ux" \in dir.mode

\* A process may create and remove entries in a directory it may write and
\* search.
MayCreateIn(dir) == dir.kind = "dir" /\ {"uw", "ux"} \subseteq dir.mode

\* ensureDirectoryExists(filepath.Join(cwd, name)): the error and the
\* working directory afterwards.
ensureDirectoryExists(cwdNode, cwdPath, name, umask) ==
    LET info == Lookup(cwdNode, name)
        path == Append(cwdPath, name)
    IN  IF ~MaySearch(cwdNode)
        THEN [err |-> Errorf("inspect directory %s: %w", {}, {path}, {}),
              cwd |-> cwdNode]
        ELSE IF ~StatExists(info)
        THEN IF MayCreateIn(cwdNode) /\ info.kind = "absent"
             THEN [err |-> NoErr,
                   cwd |-> [cwdNode EXCEPT !.children =
                              Put(@, name, DirNode(Masked(Mode755, umask),
                                                   NoChildren))]]
             ELSE [err |-> Errorf("create directory %s: %w", {}, {path}, {}),
                   cwd |-> cwdNode]
        ELSE IF ~StatIsDir(info)
        THEN [err |-> Errorf("%s exists but is not a directory", {}, {path}, {}),
              cwd |-> cwdNode]
        ELSE [err |-> NoErr, cwd |-> cwdNode]

\* Mutant of ensureWritable: the probe file is never created.
ensureWritable_NoProbe(dir, path) == NoErr

\* os.CreateTemp in dir, then close and remove of the probe: no net change.
ensureWritable(dir, path) ==
    IF MayCreateIn(dir) THEN NoErr
    ELSE Errorf("directory %s must be writable: %w", {}, {path}, {})

\* Mutant of ensureNotGitRepo: the .git entry is never looked for.
ensureNotGitRepo_NoCheck(dir, path) == NoErr

ensureNotGitRepo(dir, path) ==
    IF ~MaySearch(dir)
    THEN Errorf("check git metadata in %s: %w", {}, {path}, {})
    ELSE IF StatExists(Lookup(dir, DotGit))
    THEN Errorf("%s already contains git metadata; pick a clean folder",
                {}, {path}, {})
    ELSE NoErr

\* filepath.Base of an absolute path given as its sequence of components.
Base(path) == IF path = <<>> THEN Separator ELSE path[Len(path)]

NoDir == << <<"?">> >>

\* The result (abs, display, err) and the working directory afterwards.
resolveTargetDirectory(name, cwdNode, cwdPath, umask) ==
    IF name = Dot
    THEN LET abs == cwdPath
             base == Base(abs)
             display == IF base = Dot \/ base = Separator \/ base = <<>>
                        THEN GistName ELSE base
         IN  IF ensureWritable(cwdNode, abs) # NoErr
             THEN [dir |-> NoDir, display |-> <<>>,
                   err |-> ensureWritable(cwdNode, abs), cwd |-> cwdNode]
             ELSE IF ensureNotGitRepo(cwdNode, abs) # NoErr
             THEN [dir |-> NoDir, display |-> <<>>,
                   err |-> ensureNotGitRepo(cwdNode, abs), cwd |-> cwdNode]
             ELSE [dir |-> abs, display |-> display, err |-> NoErr,
                   cwd |-> cwdNode]
    ELSE LET made == ensureDirectoryExists(cwdNode, cwdPath, name, umask)
             abs == Append(cwdPath, name)
             target == Resolve(Lookup(made.cwd, name))
         IN  IF made.err # NoErr
             THEN [dir |-> NoDir, display |-> <<>>, err |-> made.err,
                   cwd |-> made.cwd]
             ELSE IF ensureWritable(target, abs) # NoErr
             THEN [dir |-> NoDir, display |-> <<>>,
                   err |-> ensureWritable(target, abs), cwd |-> made.cwd]
             ELSE IF ensureNotGitRepo(target, abs) # NoErr
             THEN [dir |-> NoDir, display |-> <<>>,
                   err |-> ensureNotGitRepo(target, abs), cwd |-> made.cwd]
             ELSE [dir |-> abs, display |-> name, err |-> NoErr,
                   cwd |-> made.cwd]

(***************************************************************************)
(* gatherFiles                                                             *)
(***************************************************************************)
\* entry.Type()&os.ModeSymlink != 0
TypeIsSymlink(entry) == entry.kind = "symlink"

\* entry.Info().IsDir(): DirEntry.Info describes the entry itself (lstat),
\* never the target of a symbolic link.
InfoIsDir(entry) == entry.kind = "dir"

\* entry.Info().Mode().IsRegular()
InfoIsRegular(entry) == entry.kind = "file"

MayRead(node) == "ur" \in node.mode

MdSuffix == << ".", "m", "d" >>

\* Mutant of defaultFileName: another extension.
defaultFileName_Txt(name) == name \o << ".", "t", "x", "t" >>

defaultFileName(name) == name \o MdSuffix

\* fmt.Sprintf("# %s\n", displayName)
HeadingFor(displayName) == << "#", " " >> \o displayName \o << "\n" >>

\* The loop of gatherFiles over the sorted entries; files is nil on error.
RECURSIVE GatherLoop(_, _, _, _)
GatherLoop(dir, dirPath, names, files) ==
    IF names = <<>> THEN [files |-> files, err |-> NoErr]
    ELSE LET name == Head(names)
             entry == dir.children[name]
         IN  IF ~MaySearch(dir)
             THEN [files |-> <<>>,
                   err |-> Errorf("inspect %s: %w", {}, {}, {name})]
             ELSE IF TypeIsSymlink(entry) /\ InfoIsDir(entry)
             THEN [files |-> <<>>,
                   err |-> Errorf("symlink %s targets a directory; gists cannot include directories",
                                  {}, {}, {name})]
             ELSE IF InfoIsDir(entry)
             THEN [files |-> <<>>,
                   err |-> Errorf("subdirectory %s detected; gists only support flat file sets",
                                  {}, {}, {name})]
             ELSE IF HasPrefix(name, Dot)
             THEN GatherLoop(dir, dirPath, Tail(names), files)
             ELSE IF ~InfoIsRegular(entry)
             THEN GatherLoop(dir, dirPath, Tail(names), files)
             ELSE IF ~MayRead(entry)
             THEN [files |-> <<>>,
                   err |-> Errorf("read %s: %w", {}, {}, {name})]
             ELSE GatherLoop(dir, dirPath, Tail(names),
                             Append(files, [Name |-> name,
                                            Path |-> Append(dirPath, name),
                                            Content |-> entry.content]))

\* os.WriteFile(filepath.Join(dir, name), content, 0o644): open with
\* O_WRONLY|O_CREATE|O_TRUNC (following symbolic links), write, close.
WriteFile(dir, name, content, umask) ==
    LET old == Lookup(dir, name) IN
    IF ~MaySearch(dir) THEN [ok |-> FALSE, dir |-> dir]
    ELSE IF old.kind = "absent"
    THEN IF MayCreateIn(dir)
         THEN [ok |-> TRUE,
               dir |-> [dir EXCEPT !.children =
                          Put(@, name, FileNode(Masked(Mode644, umask), content))]]
         ELSE [ok |-> FALSE, dir |-> dir]
    ELSE IF old.kind = "file" /\ "uw" \in old.mode
    THEN [ok |-> TRUE,
          dir |-> [dir EXCEPT !.children[name].content = content]]
    ELSE IF old.kind = "symlink" /\ old.link = "file" /\ "uw" \in old.mode
    THEN [ok |-> TRUE,
          dir |-> [dir EXCEPT !.children[name].content = content]]
    ELSE IF old.kind = "symlink" /\ old.link = "dangling"
    THEN \* O_CREATE follows the link and creates the file it names
         [ok |-> TRUE,
          dir |-> [dir EXCEPT !.children =
                     Put(@, name, SymlinkNode(FileNode(Masked(Mode644, umask),
                                                       content)))]]
    ELSE [ok |-> FALSE, dir |-> dir]

\* The result (files, err) and the directory afterwards.
gatherFiles(dir, dirPath, displayName, umask) ==
    IF ~MayRead(dir)
    THEN [files |-> <<>>, dir |-> dir,
          err |-> Errorf("read directory %s: %w", {}, {dirPath}, {})]
    ELSE LET loop == GatherLoop(dir, dirPath, SortNames(DOMAIN dir.children), <<>>)
             name == defaultFileName(displayName)
             content == HeadingFor(displayName)
             wrote == WriteFile(dir, name, content, umask)
         IN  IF loop.err # NoErr
             THEN [files |-> <<>>, dir |-> dir, err |-> loop.err]
             ELSE IF Len(loop.files) = 0
             THEN IF ~wrote.ok
                  THEN [files |-> <<>>, dir |-> dir,
                        err |-> Errorf("bootstrap default file %s: %w",
                                       {}, {}, {name})]
                  ELSE [files |-> << [Name |-> name,
                                      Path |-> Append(dirPath, name),
                                      Content |-> content] >>,
                        dir |-> wrote.dir, err |-> NoErr]
             ELSE [files |-> loop.files, dir |-> dir, err |-> NoErr]

(***************************************************************************)
(* createGist                                                              *)
(***************************************************************************)
\* The identifier and URL the remote gives its k-th gist.
GistIdOf(k)  == << "g", k >>
GistUrlOf(k) == << "u", k >>

\* req.Files: one entry per payload, keyed by name.
RequestFiles(files) ==
    [n \in {files[i].Name : i \in 1..Len(files)} |->
        (CHOOSE f \in {files[i] : i \in 1..Len(files)} : f.Name = n).Content]

\* outcome is what the remote side does: "client" (no REST client), "post"
\* (the POST fails), "incomplete" (an answer without id or URL), "ok".
\* k numbers the gist the remote creates.
createGist(files, opts, outcome, k) ==
    LET req == [description |-> opts.description, files |-> RequestFiles(files)]
        resp == IF outcome = "ok"
                THEN [ID |-> GistIdOf(k), HTMLURL |-> GistUrlOf(k)]
                ELSE [ID |-> <<>>, HTMLURL |-> GistUrlOf(k)]
    IN  IF outcome = "client"
        THEN [url |-> <<>>, id |-> <<>>,
              err |-> Errorf("init GitHub client: %w", {}, {}, {})]
        ELSE IF outcome = "post"
        THEN [url |-> <<>>, id |-> <<>>,
              err |-> Errorf("create gist via GitHub API: %w", {}, {}, {})]
        ELSE IF resp.ID = <<>> \/ resp.HTMLURL = <<>>
        THEN [url |-> <<>>, id |-> <<>>,
              err |-> Errorf("GitHub API returned an incomplete gist response",
                             {}, {}, {})]
        ELSE [url |-> resp.HTMLURL, id |-> resp.ID, err |-> NoErr]

(***************************************************************************)
(* copyFile / copyDir / moveFileOrDir                                      *)
(***************************************************************************)
\* copyFile(src, dst) with dst absent, src an entry of directory srcDir and
\* dst a path in directory dstDir: the success flag and the node at dst
\* afterwards.  os.Open follows symbolic links; the destination is created
\* with the bits of what was opened before io.Copy reads it.
copyFile(src, srcDir, dstDir, umask) ==
    LET opened == Resolve(src) IN
    IF ~MaySearch(srcDir) \/ opened.kind \in {"absent", "socket"}
          \/ ~MayRead(opened)
    THEN [ok |-> FALSE, node |-> Absent]
    ELSE IF ~MayCreateIn(dstDir) THEN [ok |-> FALSE, node |-> Absent]
    ELSE IF opened.kind = "dir"
    THEN [ok |-> FALSE, node |-> FileNode(Masked(opened.mode, umask), <<>>)]
    ELSE [ok |-> TRUE,
          node |-> FileNode(Masked(opened.mode, umask), opened.content)]

RECURSIVE copyDir(_, _, _, _)
RECURSIVE CopyEntries(_, _, _, _)

\* copyDir(src, dst) with dst absent, src an entry of directory srcDir and
\* dst a path in directory dstDir: os.Stat(src), os.MkdirAll(dst, mode of
\* src), os.ReadDir(src), then the entries in order.  The node is what
\* exists at dst afterwards, also when the copy stops half way.
copyDir(src, srcDir, dstDir, umask) ==
    LET srcInfo == Resolve(src) IN
    IF ~MaySearch(srcDir) \/ srcInfo.kind = "absent"
    THEN [ok |-> FALSE, node |-> Absent]
    ELSE IF ~MayCreateIn(dstDir) THEN [ok |-> FALSE, node |-> Absent]
    ELSE LET made == DirNode(Masked(srcInfo.mode, umask), NoChildren) IN
         IF srcInfo.kind # "dir" \/ ~MayRead(srcInfo)
         THEN [ok |-> FALSE, node |-> made]
         ELSE CopyEntries(srcInfo, SortNames(DOMAIN srcInfo.children), made,
                          umask)

CopyEntries(src, names, dst, umask) ==
    IF names = <<>> THEN [ok |-> TRUE, node |-> dst]
    ELSE LET name == Head(names)
             entry == src.children[name]
             r == IF entry.kind = "dir"
                  THEN copyDir(entry, src, dst, umask)
                  ELSE copyFile(entry, src, dst, umask)
             dst2 == IF r.node.kind = "absent" THEN dst
                     ELSE [dst EXCEPT !.children = Put(@, name, r.node)]
         IN  IF ~r.ok THEN [ok |-> FALSE, node |-> dst2]
             ELSE CopyEntries(src, Tail(names), dst2, umask)

\* os.RemoveAll below an open directory (removeAllFrom): what is left of
\* node, an entry of directory parent.  An entry is unlinked when the process
\* may write and search parent; the entries of a directory are visited when
\* it can be opened for reading, and the directory goes once it is empty.
RECURSIVE RemoveAllFrom(_, _)
RemoveAllFrom(node, parent) ==
    IF node.kind = "absent" \/ ~MaySearch(parent) THEN node
    ELSE IF node.kind # "dir"
    THEN (IF MayCreateIn(parent) THEN Absent ELSE node)
    ELSE LET after == IF MayRead(node)
                      THEN [n \in DOMAIN node.children |->
                              RemoveAllFrom(node.children[n], node)]
                      ELSE node.children
             left == { n \in DOMAIN after : after[n] # Absent }
         IN  IF left = {} /\ MayCreateIn(parent) THEN Absent
             ELSE [node EXCEPT !.children = [n \in left |-> after[n]]]

\* os.RemoveAll(path) removes everything it can: what is left of node, the
\* entry path names in directory parent.  It tries os.Remove first, and
\* otherwise opens parent for reading and goes down from there.
RemoveAll(node, parent) ==
    IF ~MaySearch(parent) THEN node
    ELSE IF node.kind = "absent" THEN Absent
    ELSE IF MayCreateIn(parent)
              /\ (node.kind # "dir" \/ DOMAIN node.children = {})
    THEN Absent
    ELSE IF ~MayRead(parent) THEN node
    ELSE RemoveAllFrom(node, parent)

\* os.RemoveAll(path) of node in directory parent returns nil.
RemoveAllOk(parent, node) ==
    MaySearch(parent) /\ RemoveAll(node, parent) = Absent

\* The errno of os.Rename(src, dst) ("ok" when it succeeds), outcome being
\* what the placement of the two paths allows: "ok" on one file system,
\* "EXDEV" across two, or another failure.  On one file system the rename
\* still needs leave to change both directories, and to write a directory
\* that changes its parent.
Rename(src, srcParent, dstParent, outcome) ==
    IF outcome = "ok"
         /\ ~(/\ MayCreateIn(srcParent) /\ MayCreateIn(dstParent)
              /\ (src.kind = "dir" => "uw" \in src.mode))
    THEN "EACCES"
    ELSE outcome

\* The error of os.Rename failing with errno: always a *os.LinkError.
RenameError(errno) == [type |-> "*os.LinkError", errno |-> errno]

\* errors.As(err, &linkErr) with linkErr a *os.LinkError: a test of the
\* error's type, whatever its errno.
AsLinkError(err) == err.type = "*os.LinkError"

\* moveFileOrDir(src, dst) with dst absent, src an entry of directory
\* srcParent and dst a path in directory dstParent.  Result: the errno of
\* os.Rename, the error, the nodes at src and dst afterwards, and whether
\* the copy and the removal of the source were attempted.
moveFileOrDir(src, srcParent, dstParent, outcome, umask) ==
    LET errno == Rename(src, srcParent, dstParent, outcome) IN
    IF errno = "ok"
    THEN [errno |-> errno, err |-> NoErr, src |-> Absent, dst |-> src,
          copied |-> FALSE, removed |-> FALSE]
    ELSE IF ~AsLinkError(RenameError(errno))
    THEN [errno |-> errno, err |-> Errorf(errno, {}, {}, {}), src |-> src,
          dst |-> Absent, copied |-> FALSE, removed |-> FALSE]
    ELSE LET c == copyDir(src, srcParent, dstParent, umask) IN
         IF ~c.ok
         THEN [errno |-> errno, err |-> Errorf("copy: %w", {}, {}, {}),
               src |-> src, dst |-> c.node, copied |-> TRUE,
               removed |-> FALSE]
         ELSE IF ~RemoveAllOk(srcParent, src)
         THEN [errno |-> errno,
               err |-> Errorf("remove source after copy: %w", {}, {}, {}),
               src |-> RemoveAll(src, srcParent), dst |-> c.node,
               copied |-> TRUE, removed |-> TRUE]
         ELSE [errno |-> errno, err |-> NoErr, src |-> Absent,
               dst |-> c.node, copied |-> TRUE, removed |-> TRUE]

(***************************************************************************)
(* moveGitMetadata: one iteration of its loop                              *)
(***************************************************************************)
\* Mutant of IsGitMetadata: .gitignore is not set apart.
IsGitMetadata_AnyPrefix(name) == HasPrefix(name, DotGit)

\* The entries moveGitMetadata moves: prefix ".git", except ".gitignore".
IsGitMetadata(name) == HasPrefix(name, DotGit) /\ name # GitIgnore

\* The loop body for entry name of directory from, moving into directory to
\* (at path toPath), outcome being what os.Rename meets.  Result: the error,
\* both directories afterwards, and the record of the moveFileOrDir call if
\* one was made.
MoveEntryStep(from, to, toPath, name, outcome, umask) ==
    LET src == from.children[name]
        dst == Lookup(to, name)
        \* the target after os.RemoveAll(dst)
        left == RemoveAll(dst, to)
        to1 == IF left.kind = "absent"
               THEN [to EXCEPT !.children = Del(@, name)]
               ELSE [to EXCEPT !.children = Put(@, name, left)]
        mv == moveFileOrDir(src, from, to1, outcome, umask)
        from2 == IF mv.src.kind = "absent"
                 THEN [from EXCEPT !.children = Del(@, name)]
                 ELSE [from EXCEPT !.children = Put(@, name, mv.src)]
        to2 == IF mv.dst.kind = "absent" THEN to1
               ELSE [to1 EXCEPT !.children = Put(@, name, mv.dst)]
    IN  IF ~IsGitMetadata(name)
        THEN [err |-> NoErr, from |-> from, to |-> to, called |-> FALSE, mv |-> mv]
        ELSE IF ~RemoveAllOk(to, dst)
        THEN [err |-> Errorf("prepare destination %s: %w", {},
                             {Append(toPath, name)}, {}),
              from |-> from, to |-> to1, called |-> FALSE, mv |-> mv]
        ELSE IF mv.err # NoErr
        THEN [err |-> Wrap("move %s into target directory: %w", {}, {},
                           {name}, mv.err),
              from |-> from2, to |-> to2, called |-> TRUE, mv |-> mv]
        ELSE [err |-> NoErr, from |-> from2, to |-> to2, called |-> TRUE, mv |-> mv]

(***************************************************************************)
(* The program: successive runs of run() over one file system              *)
(***************************************************************************)
VARIABLES
    cwd,          \* the working directory: a directory node
    cwdPath,      \* its absolute path, a sequence of components
    umask,        \* the process's file mode creation mask
    tempDir,      \* os.TempDir(): the directory os.MkdirTemp("", ...) creates in
    scratch,      \* the scratch parent this invocation made with os.MkdirTemp
                  \* (Absent if none)
    stale,        \* number of scratch parents earlier invocations left behind
                  \* in the temporary directory
    run,          \* number of the current invocation
    pc,           \* position of the current invocation in run()
    opts,         \* run: opts
    targetDir,    \* run: targetDir
    displayName,  \* run: displayName
    files,        \* run: files
    gistID,       \* run: gistID
    gistURL,      \* run: gistURL
    err,          \* the error run() returned (NoErr if none, or not yet)
    failedAt,     \* the stage that returned it
    createCalls,  \* calls of createGist made by this invocation
    cloneStarted, \* the clone subprocess was started by this invocation
    todo,         \* moveGitMetadata: entries still to visit
    movedGitDir,  \* moveGitMetadata: movedGitDir
    cloneErr,     \* cloneGistMetadata: the error it is about to return
    lastGather,   \* record of this invocation's gatherFiles call
    lastMove,     \* record of the latest moveFileOrDir call
    moveStart,    \* clone and target directories when moveGitMetadata began
    succeeded     \* target directory and number of each invocation that succeeded

fsVars    == << cwd, cwdPath, umask, tempDir, scratch, stale >>
runVars   == << opts, targetDir, displayName, files, gistID, gistURL >>
cloneVars == << todo, movedGitDir, cloneErr >>
ghostVars == << lastGather, lastMove, moveStart, succeeded >>
vars == << cwd, cwdPath, umask, tempDir, scratch, stale, run, pc, opts, targetDir,
           displayName, files, gistID, gistURL, err, failedAt, createCalls,
           cloneStarted, todo, movedGitDir, cloneErr, lastGather, lastMove,
           moveStart, succeeded >>

\* The directory a name denotes (through a symbolic link if it is one), and
\* the working directory with that directory replaced.
TargetOf(c, name) == IF name = Dot THEN c ELSE Resolve(Lookup(c, name))

WithTarget(c, name, node) ==
    IF name = Dot THEN node
    ELSE IF Lookup(c, name).kind = "symlink"
    THEN [c EXCEPT !.children = Put(@, name, SymlinkNode(node))]
    ELSE [c EXCEPT !.children = Put(@, name, node)]

Target == TargetOf(cwd, opts.name)

CloneDir == Lookup(scratch, NameClone)

----------------------------------------------------------------------------
\* Inputs and initial file systems.

Umask022 == {"gw", "ow"}
Umask000 == {}
Mode700  == {"ur", "uw", "ux"}
Mode444  == {"ur", "gr", "or"}

ContentX == << "x" >>

Arg(flag, rest, descSet, desc) ==
    [flag |-> flag, rest |-> rest, descSet |-> descSet, desc |-> desc]

ArgsSet ==
    { Arg("help", <<>>, FALSE, <<>>),
      Arg("bad", <<>>, FALSE, <<>>),
      Arg("ok", <<>>, FALSE, <<>>),
      Arg("ok", << NameN, NameA >>, FALSE, <<>>),
      Arg("ok", << <<" ">> >>, FALSE, <<>>),
      Arg("ok", << Dot >>, FALSE, <<>>),
      Arg("ok", << DotDot >>, FALSE, <<>>),
      Arg("ok", << <<"a", "/", "b">> >>, FALSE, <<>>),
      Arg("ok", << <<"a", "\\", "b">> >>, FALSE, <<>>),
      Arg("ok", << <<"-", "x">> >>, FALSE, <<>>),
      Arg("ok", << NameN >>, FALSE, <<>>),
      Arg("ok", << <<" ", "n", " ">> >>, FALSE, <<>>),
      Arg("ok", << NameN >>, TRUE, << " " >>),
      Arg("ok", << NameDotN >>, TRUE, << " ", "d", " " >>) }

\* What a target directory whose placeholder would be called md may hold.
EntryChoices(md) ==
    { << NameA, FileNode(Mode644, ContentX) >>,
      << NameA, DirNode(Mode755, NoChildren) >>,
      << NameA, SymlinkNode(DirNode(Mode755, NoChildren)) >>,
      << NameS, FileNode(Mode644, ContentX) >>,
      << GitAttrs, FileNode(Mode644, ContentX) >>,
      << GitIgnore, FileNode(Mode644, ContentX) >>,
      << DotGit, DirNode(Mode755, NoChildren) >>,
      << md, FileNode(Mode644, ContentX) >>,
      << md, SymlinkNode(FileNode(Mode644, ContentX)) >> }

\* The entry maps of at most MaxEntries entries over EntryChoices(md).
EntryMaps(md) ==
    { [n \in {c[1] : c \in C} |-> (CHOOSE c \in C : c[1] = n)[2]] :
        C \in { D \in SUBSET EntryChoices(md) :
                  /\ Cardinality(D) <= MaxEntries
                  /\ \A c, d \in D : c[1] = d[1] => c = d } }

TargetDirs(md) ==
    { DirNode(Mode755, e) : e \in EntryMaps(md) }
      \cup { DirNode(Mode555, (NameA :> FileNode(Mode644, ContentX))),
             DirNode(Mode755, (NameA :> FileNode(Mode000, ContentX))),
             DirNode(Mode755, (md :> SymlinkNode(DirNode(Mode755, NoChildren)))),
             DirNode(Mode755, (md :> SymlinkNode(FileNode(Mode444, ContentX)))),
             DirNode(Mode755, (md :> SymlinkNode(Absent))),
             DirNode(Mode755, (md :> LostLink)),
             DirNode(Mode755, (md :> SocketNode)) }

\* The working directory is the target itself, or holds the target n or .n.
StartDirs(path) ==
    TargetDirs(defaultFileName(IF path = <<>> THEN GistName ELSE Base(path)))
      \cup { DirNode(Mode755, (NameN :> t)) :
               t \in TargetDirs(defaultFileName(NameN))
                       \cup {FileNode(Mode644, ContentX)} }
      \cup { DirNode(Mode755, (NameDotN :> t)) :
               t \in TargetDirs(defaultFileName(NameDotN)) }

\* The root directory holds the temporary directory /t beside its other
\* entries; /w does not.
InitCwds(path, tmp) ==
    IF path = <<>>
    THEN { [d EXCEPT !.children = (NameT :> tmp) @@ d.children] :
             d \in StartDirs(path) }
    ELSE StartDirs(path)

\* A .git directory as git writes it under mask: directories 0777 and files
\* 0666 less the mask, object files read-only.
GitTree(mask) ==
    DirNode(Masked(Mode777, mask),
            (NameHead :> FileNode(Masked(Mode666, mask), << "r" >>))
              @@ (NameObj :> DirNode(Masked(Mode777, mask),
                               (NameA :> FileNode(Mode444, ContentX)))))

WorkFile(mask) == FileNode(Masked(Mode666, mask), ContentX)

\* What the clone subprocess leaves at the clone path when it exits zero.
CloneResults(mask) ==
    { Absent,
      DirNode(Masked(Mode777, mask), (NameA :> WorkFile(mask))),
      DirNode(Masked(Mode777, mask),
              (DotGit :> GitTree(mask)) @@ (GitIgnore :> WorkFile(mask))
                @@ (NameA :> WorkFile(mask))),
      DirNode(Masked(Mode777, mask),
              (DotGit :> GitTree(mask)) @@ (GitAttrs :> WorkFile(mask))) }

\* What it leaves there when it exits non-zero.
CloneLeftovers(mask) == { Absent, DirNode(Masked(Mode777, mask), NoChildren) }

\* Outcomes of os.Rename: success, the cross-device condition, another one.
RenameOutcomes == { "ok", "EXDEV", "EACCES" }

\* os.TempDir() ($TMPDIR, or /tmp): open to the process; one it may write
\* and search but not list; one it may not write.
Mode300 == {"uw", "ux"}

TempOpen == DirNode(Mode777, NoChildren)

TempUnlisted == DirNode(Mode300, NoChildren)

TempReadOnly == DirNode(Mode555, NoChildren)

\* Where the tool is started, and with which temporary directory: in /w
\* with the usual mask, or in / with none.  Under / the temporary directory
\* is the entry t of the working directory.
Environments ==
    { [cwdPath |-> << NameW >>, umask |-> Umask022, tempDir |-> TempOpen],
      [cwdPath |-> << NameW >>, umask |-> Umask022, tempDir |-> TempUnlisted],
      [cwdPath |-> <<>>, umask |-> Umask000, tempDir |-> TempOpen],
      [cwdPath |-> <<>>, umask |-> Umask000, tempDir |-> TempReadOnly] }

NoGather == [ran |-> FALSE, before |-> Absent, after |-> Absent,
             display |-> <<>>, files |-> <<>>, err |-> NoErr]

NoMove == [called |-> FALSE, name |-> <<>>, errno |-> "ok", src |-> Absent,
           result |-> [errno |-> "ok", err |-> NoErr, src |-> Absent,
                       dst |-> Absent, copied |-> FALSE, removed |-> FALSE]]

NoMoveStart == [from |-> Absent, to |-> Absent]

Init ==
    /\ \E env \in Environments :
         cwdPath = env.cwdPath /\ umask = env.umask /\ tempDir = env.tempDir
    /\ cwd \in InitCwds(cwdPath, tempDir)
    /\ scratch = Absent
    /\ stale = 0
    /\ run = 1
    /\ pc = "start"
    /\ opts = NoOpts
    /\ targetDir = NoDir
    /\ displayName = <<>>
    /\ files = <<>>
    /\ gistID = <<>>
    /\ gistURL = <<>>
    /\ err = NoErr
    /\ failedAt = "none"
    /\ createCalls = 0
    /\ cloneStarted = FALSE
    /\ todo = <<>>
    /\ movedGitDir = FALSE
    /\ cloneErr = NoErr
    /\ lastGather = NoGather
    /\ lastMove = NoMove
    /\ moveStart = NoMoveStart
    /\ succeeded = {}

----------------------------------------------------------------------------
\* run() returns e from stage.
Return(stage, e) ==
    /\ pc' = "exit"
    /\ err' = e
    /\ failedAt' = IF e = NoErr THEN "none" ELSE stage

\* run: opts, err := parseArgs(args)
ParseArgs ==
    /\ pc = "start"
    /\ \E args \in ArgsSet :
         LET r == parseArgs(args) IN
         IF r.err # NoErr
         THEN /\ Return("parse", r.err)
              /\ opts' = r.opts
         ELSE /\ pc' = "parsed"
              /\ opts' = r.opts
              /\ UNCHANGED << err, failedAt >>
    /\ UNCHANGED << fsVars, run, targetDir, displayName, files, gistID,
                    gistURL, createCalls, cloneStarted, cloneVars, ghostVars >>

\* run: targetDir, displayName, err := resolveTargetDirectory(opts.name)
ResolveTargetDirectory ==
    /\ pc = "parsed"
    /\ LET r == resolveTargetDirectory(opts.name, cwd, cwdPath, umask) IN
         /\ cwd' = r.cwd
         /\ IF r.err # NoErr
            THEN /\ Return("resolve", r.err)
                 /\ UNCHANGED << targetDir, displayName >>
            ELSE /\ pc' = "resolved"
                 /\ targetDir' = r.dir
                 /\ displayName' = r.display
                 /\ UNCHANGED << err, failedAt >>
    /\ UNCHANGED << cwdPath, umask, tempDir, scratch, stale, run, opts,
                    files, gistID,
                    gistURL, createCalls, cloneStarted, cloneVars, ghostVars >>

\* run: files, err := gatherFiles(targetDir, displayName, log)
GatherFiles ==
    /\ pc = "resolved"
    /\ LET r == gatherFiles(Target, targetDir, displayName, umask) IN
         /\ cwd' = WithTarget(cwd, opts.name, r.dir)
         /\ lastGather' = [ran |-> TRUE, before |-> Target, after |-> r.dir,
                           display |-> displayName, files |-> r.files,
                           err |-> r.err]
         /\ IF r.err # NoErr
            THEN /\ Return("collect", r.err)
                 /\ UNCHANGED files
            ELSE /\ pc' = "collected"
                 /\ files' = r.files
                 /\ UNCHANGED << err, failedAt >>
    /\ UNCHANGED << cwdPath, umask, tempDir, scratch, stale, run, opts,
                    targetDir,
                    displayName, gistID, gistURL, createCalls, cloneStarted,
                    cloneVars, lastMove, moveStart, succeeded >>

\* run: gistURL, gistID, err := createGist(files, opts, log)
CreateGist ==
    /\ pc = "collected"
    /\ createCalls' = createCalls + 1
    /\ \E outcome \in { "client", "post", "incomplete", "ok" } :
         LET r == createGist(files, opts, outcome, run) IN
         IF r.err # NoErr
         THEN /\ Return("create", r.err)
              /\ UNCHANGED << gistID, gistURL >>
         ELSE /\ pc' = "created"
              /\ gistID' = r.id
              /\ gistURL' = r.url
              /\ UNCHANGED << err, failedAt >>
    /\ UNCHANGED << cwd, cwdPath, umask, tempDir, scratch, stale, run, opts,
                    targetDir,
                    displayName, files, cloneStarted, cloneVars, ghostVars >>

\* cloneGistMetadata: tempParent, err := os.MkdirTemp("", "gh-gist-new-"),
\* which creates the directory in os.TempDir() and fails when the process
\* may not create entries there.
MkdirTemp ==
    /\ pc = "created"
    /\ IF MayCreateIn(tempDir)
       THEN /\ scratch' = DirNode(Mode700, NoChildren)
            /\ pc' = "tempdir"
            /\ UNCHANGED << err, failedAt >>
       ELSE /\ Return("clone",
                      Errorf("create temporary directory for cloning: %w",
                             {}, {}, {}))
            /\ UNCHANGED scratch
    /\ UNCHANGED << cwd, cwdPath, umask, tempDir, stale, run, runVars,
                    createCalls, cloneStarted, cloneVars, ghostVars >>

\* cloneGistMetadata: cmd.Run() of "gh gist clone gistID cloneDir"
GistClone ==
    /\ pc = "tempdir"
    /\ cloneStarted' = TRUE
    /\ \/ \E left \in CloneLeftovers(umask) :
            /\ scratch' = IF left = Absent THEN scratch
                          ELSE [scratch EXCEPT !.children = Put(@, NameClone, left)]
            /\ cloneErr' = Errorf("failed to clone gist metadata (retry manually: 'gh gist clone %s <tempdir>' then move .git into %s): %v\n%s",
                                  {gistID}, {targetDir}, {})
            /\ pc' = "cloneReturn"
       \/ \E made \in CloneResults(umask) :
            /\ scratch' = IF made = Absent THEN scratch
                          ELSE [scratch EXCEPT !.children = Put(@, NameClone, made)]
            /\ pc' = "cloned"
            /\ UNCHANGED cloneErr
    /\ UNCHANGED << cwd, cwdPath, umask, tempDir, stale, run, runVars, err,
                    failedAt, createCalls, todo, movedGitDir, ghostVars >>

\* The error cloneGistMetadata makes of an error e of moveGitMetadata.
MoveFailure(e) ==
    Wrap("failed to move git metadata (run 'gh gist clone %s <tempdir>' and move .git into %s manually): %w",
         {gistID}, {targetDir}, {}, e)

\* moveGitMetadata: entries, err := os.ReadDir(from)
MoveGitMetadataBegin ==
    /\ pc = "cloned"
    /\ moveStart' = [from |-> CloneDir, to |-> Target]
    /\ IF CloneDir.kind # "dir" \/ ~MayRead(CloneDir)
       THEN /\ cloneErr' = MoveFailure(Errorf("inspect cloned gist: %w", {}, {}, {}))
            /\ pc' = "cloneReturn"
            /\ UNCHANGED << todo, movedGitDir >>
       ELSE /\ todo' = SortNames(DOMAIN CloneDir.children)
            /\ movedGitDir' = FALSE
            /\ pc' = "moving"
            /\ UNCHANGED cloneErr
    /\ UNCHANGED << fsVars, run, runVars, err, failedAt, createCalls,
                    cloneStarted, lastGather, lastMove, succeeded >>

\* moveGitMetadata: one iteration of "for _, entry := range entries"
MoveGitMetadataEntry ==
    /\ pc = "moving"
    /\ todo # <<>>
    /\ \E outcome \in RenameOutcomes :
         LET name == Head(todo)
             r == MoveEntryStep(CloneDir, Target, targetDir, name, outcome, umask)
         IN  /\ IsGitMetadata(name) \/ outcome = "ok"
             /\ scratch' = [scratch EXCEPT !.children = Put(@, NameClone, r.from)]
             /\ cwd' = WithTarget(cwd, opts.name, r.to)
             /\ lastMove' = IF r.called
                            THEN [called |-> TRUE, name |-> name,
                                  errno |-> r.mv.errno,
                                  src |-> CloneDir.children[name], result |-> r.mv]
                            ELSE lastMove
             /\ IF r.err # NoErr
                THEN /\ cloneErr' = MoveFailure(r.err)
                     /\ pc' = "cloneReturn"
                     /\ UNCHANGED << todo, movedGitDir >>
                ELSE /\ todo' = Tail(todo)
                     /\ movedGitDir' = (movedGitDir \/ (r.called /\ name = DotGit))
                     /\ UNCHANGED << pc, cloneErr >>
    /\ UNCHANGED << cwdPath, umask, tempDir, stale, run, runVars, err,
                    failedAt, createCalls, cloneStarted, lastGather, moveStart,
                    succeeded >>

\* moveGitMetadata: after the loop
MoveGitMetadataEnd ==
    /\ pc = "moving"
    /\ todo = <<>>
    /\ cloneErr' = IF ~movedGitDir
                   THEN MoveFailure(Errorf("cloned gist did not include a .git directory",
                                           {}, {}, {}))
                   ELSE NoErr
    /\ pc' = "cloneReturn"
    /\ UNCHANGED << fsVars, run, runVars, err, failedAt, createCalls,
                    cloneStarted, todo, movedGitDir, ghostVars >>

\* defer os.RemoveAll(tempParent): the scratch parent afterwards, tmp being
\* the directory that holds it.  The error of os.RemoveAll is discarded.
DeferredRemoveAll(tempParent, tmp) == RemoveAll(tempParent, tmp)

\* cloneGistMetadata returns (its deferred call runs), and with it run().
CloneGistMetadataReturn ==
    /\ pc = "cloneReturn"
    /\ scratch' = DeferredRemoveAll(scratch, tempDir)
    /\ Return("clone", cloneErr)
    /\ succeeded' = IF cloneErr = NoErr
                    THEN succeeded \cup {[dir |-> targetDir, run |-> run]}
                    ELSE succeeded
    /\ UNCHANGED << cwd, cwdPath, umask, tempDir, stale, run, runVars,
                    createCalls, cloneStarted, cloneVars, lastGather, lastMove,
                    moveStart >>

\* The tool is invoked again, in the same working directory; what the
\* earlier invocation left of its scratch parent stays where it is.
NextRun ==
    /\ pc = "exit"
    /\ run < MaxRuns
    /\ run' = run + 1
    /\ pc' = "start"
    /\ opts' = NoOpts
    /\ targetDir' = NoDir
    /\ displayName' = <<>>
    /\ files' = <<>>
    /\ gistID' = <<>>
    /\ gistURL' = <<>>
    /\ err' = NoErr
    /\ failedAt' = "none"
    /\ createCalls' = 0
    /\ cloneStarted' = FALSE
    /\ todo' = <<>>
    /\ movedGitDir' = FALSE
    /\ cloneErr' = NoErr
    /\ lastGather' = NoGather
    /\ lastMove' = NoMove
    /\ moveStart' = NoMoveStart
    /\ scratch' = Absent
    /\ stale' = IF scratch = Absent THEN stale ELSE stale + 1
    /\ UNCHANGED << cwd, cwdPath, umask, tempDir, succeeded >>

Next ==
    \/ ParseArgs
    \/ ResolveTargetDirectory
    \/ GatherFiles
    \/ CreateGist
    \/ MkdirTemp
    \/ GistClone
    \/ MoveGitMetadataBegin
    \/ MoveGitMetadataEntry
    \/ MoveGitMetadataEnd
    \/ CloneGistMetadataReturn
    \/ NextRun

Spec == Init /\ [][Next]_vars

(***************************************************************************)
(* Properties                                                              *)
(***************************************************************************)
\* The directory the current invocation was asked to work on.
RequestedDir == IF opts.name = Dot THEN cwdPath ELSE Append(cwdPath, opts.name)

InsideClone == pc \in {"tempdir", "cloned", "moving", "cloneReturn"}

\* C1: createGist is called at most once per run, and only after the name
\* was validated, the target directory resolved (it exists, is writable and
\* holds no .git) and the files collected (no subdirectory, at least one
\* payload); a run that fails in one of those steps ends with an error
\* without calling createGist or starting the clone subprocess.
C1_CreateGistOnlyAfterChecks ==
    /\ createCalls <= 1
    /\ cloneStarted => createCalls = 1
    /\ createCalls = 1 =>
         /\ opts.name # <<>> /\ opts.name # DotDot
         /\ \A i \in 1..Len(opts.name) : opts.name[i] \notin {"/", "\\"}
         /\ opts.name[1] # "-"
         /\ targetDir = RequestedDir
         /\ Target.kind = "dir"
         /\ lastGather.ran /\ lastGather.err = NoErr
         /\ \A n \in DOMAIN lastGather.before.children :
              lastGather.before.children[n].kind # "dir"
         /\ files = lastGather.files /\ Len(files) >= 1
    /\ (pc \in {"collected", "created"} \/ (pc = "exit" /\ failedAt = "create")) =>
         /\ {"uw", "ux"} \subseteq Target.mode
         /\ DotGit \notin DOMAIN Target.children
    /\ failedAt \in {"parse", "resolve", "collect"} =>
         /\ pc = "exit" /\ err # NoErr
         /\ createCalls = 0 /\ ~cloneStarted /\ scratch = Absent

\* A run that went through every stage and succeeded.
W_C1_RunSucceeded ==
    pc = "exit" /\ err = NoErr /\ createCalls = 1 /\ cloneStarted

\* C2: once cloneGistMetadata has returned, the scratch parent directory it
\* created no longer exists, whatever path it returned by.
C2_ScratchRemovedOnReturn ==
    ~InsideClone => scratch = Absent

\* C3: every error cloneGistMetadata returns embeds the gist identifier and
\* the target directory path.
C3_CloneErrorNamesGistAndTarget ==
    (pc = "exit" /\ failedAt = "clone") =>
        gistID \in err.ids /\ targetDir \in err.paths

\* C4: when the directory holds a symbolic link to a directory, gatherFiles
\* fails, returns no payloads, and nothing is uploaded.
C4_SymlinkedDirectoryIsFatal ==
    (/\ lastGather.ran
     /\ \E n \in DOMAIN lastGather.before.children :
          /\ lastGather.before.children[n].kind = "symlink"
          /\ lastGather.before.children[n].link = "dir") =>
        lastGather.err # NoErr /\ lastGather.files = <<>> /\ createCalls = 0

\* Two trees hold the same names, kinds and bytes.
RECURSIVE SameTree(_, _)
SameTree(a, b) ==
    /\ a.kind = b.kind
    /\ a.content = b.content
    /\ DOMAIN a.children = DOMAIN b.children
    /\ \A n \in DOMAIN a.children : SameTree(a.children[n], b.children[n])

\* C5: while and after moveGitMetadata runs, every clone entry named
\* .gitignore or not beginning with ".git" is still in the clone directory,
\* and the target's entry of that name is as it was; when moveGitMetadata
\* succeeds, every other clone entry is in the target and no longer in the
\* clone.
C5_OnlyGitMetadataMoves ==
    (pc \in {"moving", "cloneReturn"} /\ moveStart.from.kind = "dir") =>
        /\ \A n \in (DOMAIN moveStart.from.children) \cup (DOMAIN moveStart.to.children)
                      \cup (DOMAIN Target.children) :
             (n = GitIgnore \/ ~(Len(n) >= 4 /\ SubSeq(n, 1, 4) = DotGit)) =>
                 /\ Lookup(CloneDir, n) = Lookup(moveStart.from, n)
                 /\ Lookup(Target, n) = Lookup(moveStart.to, n)
        /\ (pc = "cloneReturn" /\ cloneErr = NoErr) =>
             \A n \in DOMAIN moveStart.from.children :
               (n # GitIgnore /\ Len(n) >= 4 /\ SubSeq(n, 1, 4) = DotGit) =>
                 /\ n \notin DOMAIN CloneDir.children
                 /\ SameTree(Lookup(Target, n), moveStart.from.children[n])

\* moveGitMetadata succeeded on a clone holding .git and .gitignore: .git is
\* in the target, .gitignore is still in the clone and not in the target.
W_C5_GitMovedIgnoreLeft ==
    /\ pc = "cloneReturn" /\ cloneErr = NoErr
    /\ {DotGit, GitIgnore} \subseteq DOMAIN moveStart.from.children
    /\ GitIgnore \in DOMAIN CloneDir.children
    /\ DotGit \in DOMAIN Target.children
    /\ GitIgnore \notin DOMAIN Target.children

\* An earlier invocation succeeded on the directory this one is asked for.
SucceededBefore ==
    \E s \in succeeded : s.dir = RequestedDir /\ s.run < run

\* C6: a later run on a directory on which an earlier run succeeded never
\* collects files, calls createGist or starts a clone; once parseArgs has
\* accepted its arguments it ends in directory resolution, with the "already
\* contains git metadata" error naming that directory.  (A later run whose
\* arguments parseArgs rejects ends there, before the directory is looked
\* at.)
C6_SecondRunFailsAtGitCheck ==
    (SucceededBefore /\ pc # "start") =>
        /\ ~lastGather.ran /\ createCalls = 0 /\ ~cloneStarted
        /\ \/ pc = "parsed"
           \/ pc = "exit" /\ failedAt = "parse"
           \/ /\ pc = "exit" /\ failedAt = "resolve"
              /\ err.chain = << "%s already contains git metadata; pick a clean folder" >>
              /\ RequestedDir \in err.paths

\* The later run has ended, at the git metadata check.
W_C6_SecondRunRejected ==
    SucceededBefore /\ pc = "exit" /\ failedAt = "resolve"

\* The directory holds no regular file whose name does not begin with ".".
YieldsNoPayload(dir) ==
    \A n \in DOMAIN dir.children :
        n[1] = "." \/ dir.children[n].kind # "file"

\* C7: a successful gatherFiles never returns an empty sequence; on a
\* directory that yields no payload it returns exactly the placeholder
\* <displayName>.md with content "# <displayName>\n", and that name then
\* holds that content in the directory.
C7_PlaceholderForEmptyDirectory ==
    (lastGather.ran /\ lastGather.err = NoErr) =>
        /\ Len(lastGather.files) >= 1
        /\ YieldsNoPayload(lastGather.before) =>
             LET name == lastGather.display \o << ".", "m", "d" >>
                 content == << "#", " " >> \o lastGather.display \o << "\n" >>
             IN  /\ Len(lastGather.files) = 1
                 /\ lastGather.files[1].Name = name
                 /\ lastGather.files[1].Content = content
                 /\ name \in DOMAIN lastGather.after.children
                 /\ lastGather.after.children[name].kind \in {"file", "symlink"}
                 /\ lastGather.after.children[name].content = content

\* gatherFiles succeeded on a directory without entries.
W_C7_EmptyDirectoryCollected ==
    /\ lastGather.ran /\ lastGather.err = NoErr
    /\ DOMAIN lastGather.before.children = {}
    /\ Len(lastGather.files) = 1

\* C8: when os.Rename fails with anything but the cross-device condition,
\* moveFileOrDir attempts no copy and no removal, leaves source and
\* destination as they were, and returns the rename error itself.
C8_FallbackOnlyOnCrossDevice ==
    (lastMove.called /\ lastMove.errno \notin {"ok", "EXDEV"}) =>
        /\ ~lastMove.result.copied /\ ~lastMove.result.removed
        /\ lastMove.result.src = lastMove.src
        /\ lastMove.result.dst = Absent
        /\ lastMove.result.err.chain = << lastMove.errno >>

\* Every file of the tree can be read and every directory of it listed.
RECURSIVE Copyable(_)
Copyable(node) ==
    /\ "ur" \in node.mode
    /\ node.kind = "dir" =>
         /\ {"uw", "ux"} \subseteq node.mode
         /\ \A n \in DOMAIN node.children : Copyable(node.children[n])

\* C9: when os.Rename fails with the cross-device condition on a regular
\* file or a directory tree whose copy and removal meet no obstacle,
\* moveFileOrDir succeeds, the destination is the source (same kind,
\* structure, bytes and modes) and the source is gone.
C9_CrossDeviceMovePreservesEntry ==
    (/\ lastMove.called /\ lastMove.errno = "EXDEV"
     /\ lastMove.src.kind \in {"file", "dir"}
     /\ Copyable(lastMove.src)) =>
        /\ lastMove.result.err = NoErr
        /\ lastMove.result.dst = lastMove.src
        /\ lastMove.result.src = Absent

\* C10: gatherFiles leaves every entry the directory held as it was, and
\* returns the placeholder only if no entry of its name was there.
C10_GatherKeepsExistingEntries ==
    lastGather.ran =>
        /\ \A n \in DOMAIN lastGather.before.children :
             /\ n \in DOMAIN lastGather.after.children
             /\ lastGather.after.children[n] = lastGather.before.children[n]
        /\ lastGather.after # lastGather.before =>
             (lastGather.display \o << ".", "m", "d" >>)
                 \notin DOMAIN lastGather.before.children

====
